---- MODULE Spec2Model ----
(***************************************************************************)
(* The quiz-taking session of QuizWhiz: the take page                      *)
(* (src/src/app/quiz/[quizId]/take/page.tsx) and the focus monitor hook    *)
(* (src/src/hooks/use-cheating-detection.ts).                              *)
(*                                                                         *)
(* One step of the model is one turn of the browser's event loop: the      *)
(* handler that the event runs, the re-render its state updates cause and  *)
(* the effects of that render (Settle).  A callback created by a render     *)
(* reads the state of THAT render: the values a callback closes over are   *)
(* carried as a Closure record, and a timeout scheduled by a listener      *)
(* keeps the closure of the listener that scheduled it.                    *)
(*                                                                         *)
(* Strings are sequences of one-character strings, so that trim() and      *)
(* equality are computed.  A timer fires no earlier than its delay: the    *)
(* passing of the interval's second is the step SecondElapses, and a       *)
(* pending blur timeout fires at any later turn, in scheduling order.      *)
(***************************************************************************)
EXTENDS Integers, Sequences, FiniteSets, TLC

(***************************************************************************)
(* Bounds of the model.                                                    *)
(***************************************************************************)
MaxViolations == 2      \* focus violations counted in one session
MaxPendingBlur == 1     \* blur grace timeouts pending at one time
MaxAddDocs == 2         \* attempt-store writes started in one session
MaxDurationSeconds == 1 \* longest quiz duration, in seconds
MaxElapsedMs == 1600    \* milliseconds from startTime followed by the clock

SecondsPerMinute == 60
MillisPerSecond == 1000

(***************************************************************************)
(* Strings and answer values.                                              *)
(***************************************************************************)
A == <<"A">>
B == <<"B">>
Blank == <<" ">>
EmptyString == <<>>
TrueText == <<"T", "r", "u", "e">>
FalseText == <<"F", "a", "l", "s", "e">>

\* a value of the answers map: undefined, a string or an array of strings
Undefined == [t |-> "undefined", s |-> <<>>, a |-> <<>>]
Str(s) == [t |-> "string", s |-> s, a |-> <<>>]
Arr(a) == [t |-> "array", s |-> <<>>, a |-> a]
Null == [t |-> "null", s |-> <<>>, a |-> <<>>]

IsArray(v) == v.t = "array"

\* JavaScript truthiness of an answer value: undefined, null and "" are falsy
Truthy(v) == (v.t = "array") \/ (v.t = "string" /\ v.s # <<>>)

RECURSIVE TrimLeft(_)
TrimLeft(s) == IF s # <<>> /\ Head(s) = " " THEN TrimLeft(Tail(s)) ELSE s

RECURSIVE TrimRight(_)
TrimRight(s) ==
    IF s # <<>> /\ s[Len(s)] = " " THEN TrimRight(SubSeq(s, 1, Len(s) - 1)) ELSE s

Trim(s) == TrimRight(TrimLeft(s))

Includes(seq, x) == \E i \in 1..Len(seq) : seq[i] = x

RECURSIVE Filter(_, _)
Filter(seq, x) ==
    IF seq = <<>> THEN <<>>
    ELSE IF Head(seq) = x THEN Filter(Tail(seq), x)
    ELSE <<Head(seq)>> \o Filter(Tail(seq), x)

(***************************************************************************)
(* Quiz documents of the store.                                            *)
(***************************************************************************)
Question(id, type, options, correctAnswers, isRequired) ==
    [id |-> id, type |-> type, options |-> options,
     correctAnswers |-> correctAnswers, isRequired |-> isRequired]

QuestionLists ==
    { << Question("q1", "mcq", <<A>>, <<A>>, TRUE),
         Question("q2", "msq", <<A>>, <<A>>, FALSE) >> }

\* the keys the answers map can get: the ids of the documents and the
\* fallback ids `q-${idx}` that fetchQuiz gives to questions without an id
FallbackIds == <<"q-0", "q-1", "q-2">>

QuestionIds == {"q1", "q2", "q3"} \cup {FallbackIds[i] : i \in 1..Len(FallbackIds)}

\* durationMinutes is a JavaScript number; the document holds it here as a
\* count of sixtieths of a minute, so that durationMinutes * 60 is exact
QuizDocs ==
    [questions : QuestionLists,
     durationSixtieths : 0..MaxDurationSeconds,
     cheatingProtection : BOOLEAN]

\* Documents of quizzes with three questions, for the handlers that read the
\* questions' types, flags and correct answers.  One question is of any type,
\* the two others are single-choice questions with one option; every question
\* may be required.  correctAnswers holds no value twice (the options editor
\* adds a value only while it is not included); a free-text question left
\* without a correct answer by the editor holds <<>> or one empty string.
VariedQuestions ==
    {Question("", "mcq", <<A, B>>, <<A>>, r) : r \in BOOLEAN}
    \cup {Question("", "tf", <<>>, <<TrueText>>, r) : r \in BOOLEAN}
    \cup {Question("", "msq", <<A, B>>, c, r) :
             c \in {<<A>>, <<B, A>>}, r \in BOOLEAN}
    \cup {Question("", "text", <<>>, c, r) :
             c \in {<<>>, <<EmptyString>>, <<A>>}, r \in BOOLEAN}

PlainQuestions == {Question("", "mcq", <<A>>, <<A>>, r) : r \in BOOLEAN}

DocumentIds == <<"q1", "q2", "q3">>

FormQuestionLists ==
    {[i \in 1..3 |-> [qs[i] EXCEPT !.id = DocumentIds[i]]] :
        qs \in {l \in [1..3 -> VariedQuestions \cup PlainQuestions] :
                    \E k \in 1..3 : \A i \in (1..3) \ {k} : l[i] \in PlainQuestions}}

FormQuizDocs ==
    [questions : FormQuestionLists,
     durationSixtieths : {MaxDurationSeconds},
     cheatingProtection : {FALSE}]

NoQuiz == [questions |-> <<>>, durationSixtieths |-> 0, cheatingProtection |-> FALSE]

Triggers == {"manual", "timeout", "cheating"}

VARIABLES
    quizDoc,                \* the document of the quiz store this view reads
    mounted,                \* the take page is mounted
    fetch,                  \* fetchQuiz: "pending", "loaded", "notfound", "failed"
    quiz,                   \* useState quiz (NoQuiz while null)
    loading,                \* useState loading
    user,                   \* useAuth().user is not null
    currentQuestionIndex,   \* useState currentQuestionIndex
    answers,                \* useState answers: question id -> value
    timeLeft,               \* useState timeLeft: <<>> is null, <<n>> a number
    isSubmitting,           \* useState isSubmitting
    pageViolationCount,     \* the page's violationCount ref
    hookViolationCount,     \* the hook's violationCount ref
    isPageVisible,          \* the hook's isPageVisible ref
    listenersAttached,      \* the hook's three listeners are registered
    blurTimers,             \* pending setTimeout callbacks of handleBlur
    intervalArmed,          \* the timer effect's setInterval is active
    intervalElapsed,        \* the interval's second has passed
    documentHidden,         \* document.hidden
    windowFocused,          \* document.hasFocus()
    inflight,               \* addDoc(attempts) calls awaiting completion
    attempts,               \* the attempts collection
    redirects,              \* router.replace / router.push targets, in order
    cheatingLogs,           \* addDoc(cheating_logs) calls made (violationNumber)
    toasts,                 \* titles of the toasts shown in the last turn
    started,                \* number of addDoc(attempts) calls started
    violationLog,           \* arguments of the onViolation calls, in order
    turnLog,                \* what the handlers of the last turn did (Tags)
    expired,                \* the timer effect has called handleSubmitQuiz('timeout')
    ticks,                  \* interval callbacks run
    elapsedMs,              \* new Date().getTime() - startTime.getTime()
    logResults              \* outcomes of the first addDoc(cheating_logs) calls

vars == << quizDoc, mounted, fetch, quiz, loading, user, currentQuestionIndex,
           answers, timeLeft, isSubmitting, pageViolationCount,
           hookViolationCount, isPageVisible, listenersAttached, blurTimers,
           intervalArmed, intervalElapsed, documentHidden, windowFocused,
           inflight, attempts, redirects, cheatingLogs, toasts, started,
           violationLog, turnLog, expired, ticks, elapsedMs, logResults >>

\* the state at the start of a turn, as one record that the handlers transform;
\* nothing of this turn has been shown or logged yet
World ==
    [quizDoc |-> quizDoc, mounted |-> mounted, fetch |-> fetch, quiz |-> quiz,
     loading |-> loading, user |-> user,
     currentQuestionIndex |-> currentQuestionIndex, answers |-> answers,
     timeLeft |-> timeLeft, isSubmitting |-> isSubmitting,
     pageViolationCount |-> pageViolationCount,
     hookViolationCount |-> hookViolationCount,
     isPageVisible |-> isPageVisible, listenersAttached |-> listenersAttached,
     blurTimers |-> blurTimers, intervalArmed |-> intervalArmed,
     intervalElapsed |-> intervalElapsed, documentHidden |-> documentHidden,
     windowFocused |-> windowFocused, inflight |-> inflight,
     attempts |-> attempts, redirects |-> redirects,
     cheatingLogs |-> cheatingLogs, toasts |-> {}, started |-> started,
     violationLog |-> violationLog, turnLog |-> {},
     expired |-> expired, ticks |-> ticks, elapsedMs |-> elapsedMs,
     logResults |-> logResults]

Become(w) ==
    /\ quizDoc' = w.quizDoc
    /\ mounted' = w.mounted
    /\ fetch' = w.fetch
    /\ quiz' = w.quiz
    /\ loading' = w.loading
    /\ user' = w.user
    /\ currentQuestionIndex' = w.currentQuestionIndex
    /\ answers' = w.answers
    /\ timeLeft' = w.timeLeft
    /\ isSubmitting' = w.isSubmitting
    /\ pageViolationCount' = w.pageViolationCount
    /\ hookViolationCount' = w.hookViolationCount
    /\ isPageVisible' = w.isPageVisible
    /\ listenersAttached' = w.listenersAttached
    /\ blurTimers' = w.blurTimers
    /\ intervalArmed' = w.intervalArmed
    /\ intervalElapsed' = w.intervalElapsed
    /\ documentHidden' = w.documentHidden
    /\ windowFocused' = w.windowFocused
    /\ inflight' = w.inflight
    /\ attempts' = w.attempts
    /\ redirects' = w.redirects
    /\ cheatingLogs' = w.cheatingLogs
    /\ toasts' = w.toasts
    /\ started' = w.started
    /\ violationLog' = w.violationLog
    /\ turnLog' = w.turnLog
    /\ expired' = w.expired
    /\ ticks' = w.ticks
    /\ elapsedMs' = w.elapsedMs
    /\ logResults' = w.logResults

\* the bounds, as a guard on the state a step leads to
WithinBounds(w) ==
    /\ w.hookViolationCount <= MaxViolations
    /\ Len(w.blurTimers) <= MaxPendingBlur
    /\ w.started <= MaxAddDocs

(***************************************************************************)
(* handleSubmitQuiz (take/page.tsx 37-144).                                *)
(***************************************************************************)
\* what the callbacks of one render close over
ClosureOf(w) ==
    [answers |-> w.answers, quiz |-> w.quiz, user |-> w.user,
     isSubmitting |-> w.isSubmitting]

HasQuiz(q) == q # NoQuiz

\* a state setter does nothing once the component is unmounted
SetIsSubmitting(w, b) == IF w.mounted THEN [w EXCEPT !.isSubmitting = b] ELSE w

SetCurrentQuestionIndex(w, i) ==
    IF w.mounted THEN [w EXCEPT !.currentQuestionIndex = i] ELSE w

Toast(w, title) == [w EXCEPT !.toasts = @ \cup {title}]

\* observations of a turn, kept in turnLog for the properties below
LateStart == "addDoc started while isSubmitting"
CallAfterStop == "onViolation called after stop"
CheckAfterHidden == "blur check after hidden signal"
Reregistered == "listeners registered again"
ExpiredAgain == "timeout submit requested again"

Tags == {LateStart, CallAfterStop, CheckAfterHidden, Reregistered, ExpiredAgain}

Note(w, tag) == [w EXCEPT !.turnLog = @ \cup {tag}]

\* the predicate of quiz.questions.find in the manual validation
UnansweredRequired(q, ans) ==
    /\ q.isRequired
    /\ \/ ~Truthy(ans)
       \/ IsArray(ans) /\ Len(ans.a) = 0
       \/ ans.t = "string" /\ Trim(ans.s) = <<>>

\* position (from 1) of the first required question without an answer, 0 if none
FirstUnansweredRequired(questions, ans) ==
    LET hits == {i \in 1..Len(questions) :
                    UnansweredRequired(questions[i], ans[questions[i].id])}
    IN IF hits = {} THEN 0 ELSE CHOOSE i \in hits : \A j \in hits : i <= j

\* quiz.questions.findIndex(q => q.id === id), from 1; 0 stands for -1
FindIndexById(questions, id) ==
    LET hits == {i \in 1..Len(questions) : questions[i].id = id}
    IN IF hits = {} THEN 0 ELSE CHOOSE i \in hits : \A j \in hits : i <= j

\* answers[q.id] || null
UserAnswer(ans, q) == IF Truthy(ans[q.id]) THEN ans[q.id] ELSE Null

\* variant: the multi-choice test without the comparison of the lengths
IsCorrectWithoutLength(q, userAnswer) ==
    /\ Truthy(userAnswer)
    /\ IF q.type = "msq"
       THEN /\ IsArray(userAnswer)
            /\ \A i \in 1..Len(userAnswer.a) :
                   Includes(q.correctAnswers, userAnswer.a[i])
       ELSE /\ Len(q.correctAnswers) >= 1
            /\ userAnswer = Str(q.correctAnswers[1])

IsCorrect(q, userAnswer) ==
    /\ Truthy(userAnswer)
    /\ IF q.type = "msq"
       THEN /\ IsArray(userAnswer)
            /\ Len(userAnswer.a) = Len(q.correctAnswers)
            /\ \A i \in 1..Len(userAnswer.a) :
                   Includes(q.correctAnswers, userAnswer.a[i])
       ELSE /\ Len(q.correctAnswers) >= 1
            /\ userAnswer = Str(q.correctAnswers[1])

\* variant: score++ for every question that has an answer
CountAnswered(questions, ans) ==
    Cardinality({i \in 1..Len(questions) : Truthy(UserAnswer(ans, questions[i]))})

CountCorrect(questions, ans) ==
    Cardinality({i \in 1..Len(questions) :
                    IsCorrect(questions[i], UserAnswer(ans, questions[i]))})

\* variant: the score is counted for every trigger
CalculateScoreNoOverride(submissionType, questions, ans) ==
    CountCorrect(questions, ans)

CalculateScore(submissionType, questions, ans) ==
    IF submissionType = "cheating" THEN 0 ELSE CountCorrect(questions, ans)

AnsweredQuestions(questions, ans) ==
    [i \in 1..Len(questions) |->
        [questionId |-> questions[i].id, value |-> UserAnswer(ans, questions[i])]]

\* variant: the quotient without rounding
TimeTakenSecondsFloor(ms) == ms \div MillisPerSecond

\* Math.round(ms / 1000): the nearest integer, a half rounded up
TimeTakenSeconds(ms) == (2 * ms + MillisPerSecond) \div (2 * MillisPerSecond)

\* rawAttemptData; violationCount.current is the ref's value at the call, the
\* times are milliseconds from startTime (startedAt is 0)
RawAttemptData(cl, w, submissionType) ==
    [answers |-> AnsweredQuestions(cl.quiz.questions, cl.answers),
     score |-> CalculateScore(submissionType, cl.quiz.questions, cl.answers),
     totalQuestions |-> Len(cl.quiz.questions),
     cheatingViolations |-> w.pageViolationCount,
     submittedAt |-> w.elapsedMs,
     timeTakenSeconds |-> TimeTakenSeconds(w.elapsedMs),
     submissionType |-> submissionType]

\* the call of addDoc(collection(db, "attempts"), attemptData)
StartAddDoc(w, data) ==
    LET w1 == IF w.isSubmitting THEN Note(w, LateStart) ELSE w
    IN [w1 EXCEPT !.inflight = Append(@, data), !.started = @ + 1]

\* the guard of handleSubmitQuiz (line 38), on the values the callback closed over
SubmitGuardPasses(cl) == ~(cl.isSubmitting \/ ~HasQuiz(cl.quiz) \/ ~cl.user)

\* variant: the cancelled manual submission leaves isSubmitting set
HandleSubmitQuizStaysSubmitting(cl, w, submissionType) ==
    IF ~SubmitGuardPasses(cl) THEN w
    ELSE
      LET first == IF submissionType = "manual"
                   THEN FirstUnansweredRequired(cl.quiz.questions, cl.answers)
                   ELSE 0
      IN IF first # 0
         THEN LET idx == FindIndexById(cl.quiz.questions,
                                       cl.quiz.questions[first].id)
                  w1 == Toast(w, "Required Questions Missing")
                  w2 == IF idx # 0 THEN SetCurrentQuestionIndex(w1, idx - 1) ELSE w1
              IN SetIsSubmitting(w2, TRUE)
         ELSE SetIsSubmitting(
                  StartAddDoc(w, RawAttemptData(cl, w, submissionType)), TRUE)

\* handleSubmitQuiz up to its await, run by a callback of the render cl
HandleSubmitQuiz(cl, w, submissionType) ==
    IF ~SubmitGuardPasses(cl) THEN w
    ELSE
      LET first == IF submissionType = "manual"
                   THEN FirstUnansweredRequired(cl.quiz.questions, cl.answers)
                   ELSE 0
      IN IF first # 0
         THEN LET idx == FindIndexById(cl.quiz.questions,
                                       cl.quiz.questions[first].id)
                  w1 == Toast(w, "Required Questions Missing")
                  w2 == IF idx # 0 THEN SetCurrentQuestionIndex(w1, idx - 1) ELSE w1
              IN SetIsSubmitting(w2, FALSE)
         ELSE SetIsSubmitting(
                  StartAddDoc(w, RawAttemptData(cl, w, submissionType)), TRUE)

(***************************************************************************)
(* onViolation (take/page.tsx 146-174).                                    *)
(***************************************************************************)
\* variant: onViolation without violationCount.current = count
OnViolationKeepsRef(cl, w, count) ==
    LET w1 == [w EXCEPT !.violationLog = Append(@, count)]
        w2 == IF count = 1 THEN Toast(w1, "Warning: Cheating Detected")
              ELSE IF count >= 2
              THEN HandleSubmitQuiz(cl, Toast(w1, "Quiz Auto-Submitted"), "cheating")
              ELSE w1
    IN IF cl.user THEN [w2 EXCEPT !.cheatingLogs = Append(@, count)] ELSE w2

\* variant: the submission is requested from the first violation on
OnViolationAtFirst(cl, w, count) ==
    LET w1 == [w EXCEPT !.pageViolationCount = count,
                        !.violationLog = Append(@, count)]
        w2 == IF count >= 1
              THEN HandleSubmitQuiz(cl, Toast(w1, "Quiz Auto-Submitted"), "cheating")
              ELSE w1
    IN IF cl.user THEN [w2 EXCEPT !.cheatingLogs = Append(@, count)] ELSE w2

OnViolation(cl, w, count) ==
    LET w1 == [w EXCEPT !.pageViolationCount = count,
                        !.violationLog = Append(@, count)]
        w2 == IF count = 1 THEN Toast(w1, "Warning: Cheating Detected")
              ELSE IF count >= 2
              THEN HandleSubmitQuiz(cl, Toast(w1, "Quiz Auto-Submitted"), "cheating")
              ELSE w1
    IN IF cl.user THEN [w2 EXCEPT !.cheatingLogs = Append(@, count)] ELSE w2

(***************************************************************************)
(* useCheatingDetection (use-cheating-detection.ts).                       *)
(***************************************************************************)
\* a pending timeout of handleBlur: the closure of the listener that scheduled
\* it; stopped: that listener has been removed since; sawHidden: a hidden
\* signal was handled after the blur and isPageVisible was not set back since
BlurTimer(cl) == [cl |-> cl, stopped |-> FALSE, sawHidden |-> FALSE]

MarkTimers(w, field, b) ==
    [w EXCEPT !.blurTimers =
        [i \in 1..Len(w.blurTimers) |-> [w.blurTimers[i] EXCEPT ![field] = b]]]

\* variant: the hidden branch leaves isPageVisible as it is
HandleVisibilityChangeKeepsFlag(cl, w) ==
    IF w.documentHidden
    THEN LET w1 == [MarkTimers(w, "sawHidden", TRUE) EXCEPT
                       !.hookViolationCount = @ + 1]
         IN OnViolation(cl, w1, w1.hookViolationCount)
    ELSE [MarkTimers(w, "sawHidden", FALSE) EXCEPT !.isPageVisible = TRUE]

\* handleVisibilityChange, after document.hidden has changed
HandleVisibilityChange(cl, w) ==
    IF w.documentHidden
    THEN LET w1 == [MarkTimers(w, "sawHidden", TRUE) EXCEPT
                       !.isPageVisible = FALSE,
                       !.hookViolationCount = @ + 1]
         IN OnViolation(cl, w1, w1.hookViolationCount)
    ELSE [MarkTimers(w, "sawHidden", FALSE) EXCEPT !.isPageVisible = TRUE]

\* handleBlur: only schedules the check
HandleBlur(cl, w) == [w EXCEPT !.blurTimers = Append(@, BlurTimer(cl))]

\* the callback of handleBlur's setTimeout, for the timeout t
BlurTimeout(t, w) ==
    LET w0 == IF t.sawHidden THEN Note(w, CheckAfterHidden) ELSE w
    IN IF w0.isPageVisible /\ ~w0.windowFocused
       THEN LET w1 == [w0 EXCEPT !.isPageVisible = FALSE,
                                 !.hookViolationCount = @ + 1]
                w2 == IF t.stopped THEN Note(w1, CallAfterStop) ELSE w1
            IN OnViolation(t.cl, w2, w2.hookViolationCount)
       ELSE w0

HandleFocus(w) == [MarkTimers(w, "sawHidden", FALSE) EXCEPT !.isPageVisible = TRUE]

\* variant: the hook's own default, enabled = true
DetectionEnabledByDefault(w) == TRUE

\* enabled: quiz?.cheatingProtection ?? false (take/page.tsx 176)
DetectionEnabled(w) == HasQuiz(w.quiz) /\ w.quiz.cheatingProtection

\* the cleanup of the hook's effect
RemoveListeners(w) ==
    IF w.listenersAttached
    THEN [MarkTimers(w, "stopped", TRUE) EXCEPT !.listenersAttached = FALSE]
    ELSE w

\* variant: the count lives in the effect and starts again with it
ListenerEffectResetsCount(w) ==
    [RemoveListeners(w) EXCEPT !.listenersAttached = DetectionEnabled(w),
                               !.hookViolationCount = 0]

\* the hook's effect, run again because enabled or onViolation changed
ListenerEffect(w) ==
    LET w0 == IF w.listenersAttached /\ DetectionEnabled(w)
              THEN Note(w, Reregistered) ELSE w
    IN [RemoveListeners(w0) EXCEPT !.listenersAttached = DetectionEnabled(w)]

(***************************************************************************)
(* The timer effect (take/page.tsx 209-223) and the re-render.             *)
(***************************************************************************)
HasTime(w) == w.timeLeft # <<>>

TimeVal(w) == w.timeLeft[1]

\* variant: no return after the expiry branch, the interval is set again
TimerEffectNoReturn(w) ==
    LET w0 == [w EXCEPT !.intervalArmed = FALSE, !.intervalElapsed = FALSE]
    IN IF ~HasTime(w0) THEN w0
       ELSE IF TimeVal(w0) <= 0
       THEN [HandleSubmitQuiz(ClosureOf(w0),
                 [Toast(w0, "Time's Up!") EXCEPT !.expired = TRUE], "timeout")
             EXCEPT !.intervalArmed = TRUE]
       ELSE [w0 EXCEPT !.intervalArmed = TRUE]

\* the timer effect: cleanup of the previous run, then the effect body
TimerEffect(w) ==
    LET w0 == [w EXCEPT !.intervalArmed = FALSE, !.intervalElapsed = FALSE]
    IN IF ~HasTime(w0) THEN w0
       ELSE IF TimeVal(w0) <= 0
       THEN LET w1 == IF w0.expired THEN Note(w0, ExpiredAgain) ELSE w0
            IN HandleSubmitQuiz(ClosureOf(w1),
                   [Toast(w1, "Time's Up!") EXCEPT !.expired = TRUE], "timeout")
       ELSE [w0 EXCEPT !.intervalArmed = TRUE]

\* the effects of the render of w; callbacks: handleSubmitQuiz has a new identity
RunEffects(w, callbacks) ==
    TimerEffect(IF callbacks THEN ListenerEffect(w) ELSE w)

\* re-render until no state changes: prev is the state of the last render,
\* touched says that setAnswers installed a new answers object
RECURSIVE Settle(_, _, _)
Settle(prev, w, touched) ==
    LET callbacks == touched \/ ClosureOf(prev) # ClosureOf(w)
    IN IF ~w.mounted \/ ~(callbacks \/ prev.timeLeft # w.timeLeft) THEN w
       ELSE Settle(w, RunEffects(w, callbacks), FALSE)

(***************************************************************************)
(* Initial state: the page has mounted and fetchQuiz awaits the read.      *)
(***************************************************************************)
FreshPage ==
    /\ mounted = TRUE
    /\ fetch = "pending"
    /\ quiz = NoQuiz
    /\ loading = TRUE
    /\ currentQuestionIndex = 0
    /\ answers = [id \in QuestionIds |-> Undefined]
    /\ timeLeft = <<>>
    /\ isSubmitting = FALSE
    /\ pageViolationCount = 0
    /\ hookViolationCount = 0
    /\ isPageVisible = TRUE
    /\ listenersAttached = FALSE
    /\ blurTimers = <<>>
    /\ intervalArmed = FALSE
    /\ intervalElapsed = FALSE
    /\ documentHidden = FALSE
    /\ windowFocused = TRUE
    /\ inflight = <<>>
    /\ attempts = <<>>
    /\ redirects = <<>>
    /\ cheatingLogs = <<>>
    /\ toasts = {}
    /\ started = 0
    /\ violationLog = <<>>
    /\ turnLog = {}
    /\ expired = FALSE
    /\ ticks = 0
    /\ elapsedMs = 0
    /\ logResults = <<>>

Init ==
    /\ quizDoc \in QuizDocs
    /\ user \in BOOLEAN
    /\ FreshPage

\* a signed-in user opens a quiz of three questions without cheating protection
FormInit ==
    /\ quizDoc \in FormQuizDocs
    /\ user = TRUE
    /\ FreshPage

\* one turn: the handler's result w1, then the re-render it causes
Turn(w1, touched) ==
    LET w2 == Settle(World, w1, touched)
    IN WithinBounds(w2) /\ Become(w2)

(***************************************************************************)
(* fetchQuiz (take/page.tsx 178-207).                                      *)
(***************************************************************************)
\* id: q.id || `q-${idx}`
QuestionsWithIds(questions) ==
    [i \in 1..Len(questions) |->
        [questions[i] EXCEPT !.id = IF @ # "" THEN @ ELSE FallbackIds[i]]]

\* quizDataRaw.durationMinutes * 60
InitialTimeLeft(doc) == (doc.durationSixtieths * SecondsPerMinute) \div 60

SetLoading(w, b) == IF w.mounted THEN [w EXCEPT !.loading = b] ELSE w

FetchQuizFound ==
    /\ fetch = "pending"
    /\ LET w0 == [World EXCEPT !.fetch = "loaded"]
           w1 == IF w0.mounted
                 THEN [w0 EXCEPT
                         !.quiz = [quizDoc EXCEPT
                                     !.questions = QuestionsWithIds(@)],
                         !.timeLeft = <<InitialTimeLeft(quizDoc)>>]
                 ELSE w0
       IN Turn(SetLoading(w1, FALSE), FALSE)

\* variant: the failed read starts the clock at 0
FetchQuizMissingStartsClock(outcome) ==
    /\ fetch = "pending"
    /\ LET w0 == [Toast(World, "Error") EXCEPT
                     !.fetch = outcome,
                     !.timeLeft = <<0>>,
                     !.redirects = Append(@, [to |-> "dashboard", id |-> 0])]
       IN Turn(SetLoading(w0, FALSE), FALSE)

FetchQuizMissing(outcome) ==
    /\ fetch = "pending"
    /\ LET w0 == [Toast(World, "Error") EXCEPT
                     !.fetch = outcome,
                     !.redirects = Append(@, [to |-> "dashboard", id |-> 0])]
       IN Turn(SetLoading(w0, FALSE), FALSE)

FetchQuizNotFound == FetchQuizMissing("notfound")

FetchQuizFailed == FetchQuizMissing("failed")

\* onAuthStateChanged of the auth provider reports the signed-in user
AuthStateChanged ==
    /\ ~user
    /\ Turn([World EXCEPT !.user = TRUE], FALSE)

(***************************************************************************)
(* Input handlers of the rendered page (take/page.tsx 228-257, 303-391).   *)
(***************************************************************************)
TextInputs == {EmptyString, Blank, A}

UiShown ==
    /\ mounted /\ ~loading /\ HasQuiz(quiz) /\ timeLeft # <<>>
    /\ currentQuestionIndex + 1 \in 1..Len(quiz.questions)

CurrentQuestion == quiz.questions[currentQuestionIndex + 1]

\* the checkbox handler of an msq option: append when checked, filter out if not
ToggleOption(cur, option) ==
    LET currentAnswers == IF Truthy(cur) THEN cur.a ELSE <<>>
    IN IF ~Includes(currentAnswers, option)
       THEN Append(currentAnswers, option)
       ELSE Filter(currentAnswers, option)

\* the values the inputs of question q can hand to handleAnswerChange
AnswerInputs(q, cur) ==
    CASE q.type = "mcq" -> {Str(q.options[i]) : i \in 1..Len(q.options)}
      [] q.type = "tf" -> {Str(TrueText), Str(FalseText)}
      [] q.type = "msq" ->
            {Arr(ToggleOption(cur, q.options[i])) : i \in 1..Len(q.options)}
      [] OTHER -> {Str(s) : s \in TextInputs}

HandleAnswerChange(w, questionId, value) ==
    IF w.mounted THEN [w EXCEPT !.answers[questionId] = value] ELSE w

AnswerChange ==
    /\ UiShown
    /\ \E value \in AnswerInputs(CurrentQuestion, answers[CurrentQuestion.id]) :
          /\ value # answers[CurrentQuestion.id]
          /\ Turn(HandleAnswerChange(World, CurrentQuestion.id, value), TRUE)

\* variant: goToNext without the check of the last question
GoToNextUnbounded(w) ==
    LET q == w.quiz.questions[w.currentQuestionIndex + 1]
        ans == w.answers[q.id]
        isAnswered == /\ Truthy(ans)
                      /\ IF IsArray(ans) THEN Len(ans.a) > 0
                         ELSE ans.t = "string" /\ Trim(ans.s) # <<>>
    IN IF q.isRequired /\ ~isAnswered THEN Toast(w, "Required Question")
       ELSE SetCurrentQuestionIndex(w, w.currentQuestionIndex + 1)

\* variant: goToNext without the check of the required question
GoToNextUngated(w) ==
    IF w.currentQuestionIndex < Len(w.quiz.questions) - 1
    THEN SetCurrentQuestionIndex(w, w.currentQuestionIndex + 1)
    ELSE w

GoToNextOf(w) ==
    LET q == w.quiz.questions[w.currentQuestionIndex + 1]
        ans == w.answers[q.id]
        isAnswered == /\ Truthy(ans)
                      /\ IF IsArray(ans) THEN Len(ans.a) > 0
                         ELSE ans.t = "string" /\ Trim(ans.s) # <<>>
    IN IF q.isRequired /\ ~isAnswered THEN Toast(w, "Required Question")
       ELSE IF w.currentQuestionIndex < Len(w.quiz.questions) - 1
       THEN SetCurrentQuestionIndex(w, w.currentQuestionIndex + 1)
       ELSE w

\* the Next button, shown on every question but the last
GoToNext ==
    /\ UiShown
    /\ currentQuestionIndex # Len(quiz.questions) - 1
    /\ Turn(GoToNextOf(World), FALSE)

GoToPreviousOf(w) ==
    IF w.currentQuestionIndex > 0
    THEN SetCurrentQuestionIndex(w, w.currentQuestionIndex - 1)
    ELSE w

\* the Previous button, disabled on the first question
GoToPrevious ==
    /\ UiShown
    /\ currentQuestionIndex # 0
    /\ Turn(GoToPreviousOf(World), FALSE)

\* the Submit action of the dialog, shown on the last question and disabled
\* while isSubmitting
ManualSubmit ==
    /\ UiShown
    /\ currentQuestionIndex = Len(quiz.questions) - 1
    /\ ~isSubmitting
    /\ Turn(HandleSubmitQuiz(ClosureOf(World), World, "manual"), FALSE)

(***************************************************************************)
(* The countdown (take/page.tsx 219-221).                                  *)
(***************************************************************************)
SecondElapses ==
    /\ intervalArmed /\ ~intervalElapsed
    /\ Turn([World EXCEPT !.intervalElapsed = TRUE], FALSE)

\* the updater of the interval callback: prevTime ? prevTime - 1 : 0
TickUpdate(prevTime) ==
    IF prevTime # <<>> /\ prevTime[1] # 0 THEN <<prevTime[1] - 1>> ELSE <<0>>

Tick ==
    /\ intervalArmed /\ intervalElapsed
    /\ Turn([World EXCEPT !.timeLeft = TickUpdate(@),
                          !.ticks = @ + 1,
                          !.intervalElapsed = FALSE], FALSE)

(***************************************************************************)
(* Focus and visibility events of the browser.                             *)
(***************************************************************************)
\* an event matters while the page, or a timeout it left behind, can observe it
Observed == mounted \/ blurTimers # <<>>

WindowBlur ==
    /\ Observed
    /\ windowFocused
    /\ LET w0 == [World EXCEPT !.windowFocused = FALSE]
       IN Turn(IF listenersAttached THEN HandleBlur(ClosureOf(World), w0) ELSE w0,
               FALSE)

WindowFocus ==
    /\ Observed
    /\ ~windowFocused /\ ~documentHidden
    /\ LET w0 == [World EXCEPT !.windowFocused = TRUE]
       IN Turn(IF listenersAttached THEN HandleFocus(w0) ELSE w0, FALSE)

VisibilityChange ==
    /\ Observed
    /\ LET w0 == [World EXCEPT !.documentHidden = ~documentHidden]
       IN Turn(IF listenersAttached
               THEN HandleVisibilityChange(ClosureOf(World), w0) ELSE w0, FALSE)

\* the oldest pending timeout of handleBlur fires
BlurCheck ==
    /\ blurTimers # <<>>
    /\ Turn(BlurTimeout(Head(blurTimers),
                        [World EXCEPT !.blurTimers = Tail(@)]), FALSE)

(***************************************************************************)
(* Completion of addDoc(attempts) (take/page.tsx 132-143) and unmount.     *)
(***************************************************************************)
RemoveAt(seq, i) == SubSeq(seq, 1, i - 1) \o SubSeq(seq, i + 1, Len(seq))

PersistSuccess ==
    \E i \in 1..Len(inflight) :
        LET id == Len(attempts) + 1
        IN Turn([World EXCEPT
                    !.inflight = RemoveAt(@, i),
                    !.attempts = Append(@, [id |-> id, data |-> inflight[i]]),
                    !.redirects = Append(@, [to |-> "results", id |-> id])],
                FALSE)

PersistFailure ==
    \E i \in 1..Len(inflight) :
        Turn(SetIsSubmitting(
                 Toast([World EXCEPT !.inflight = RemoveAt(@, i)],
                       "Submission Error"), FALSE), FALSE)

\* the page is unmounted (navigation): the cleanups of its effects run
Unmount ==
    /\ mounted
    /\ Turn([RemoveListeners(World) EXCEPT
                !.mounted = FALSE,
                !.intervalArmed = FALSE,
                !.intervalElapsed = FALSE], FALSE)

Next ==
    \/ FetchQuizFound
    \/ FetchQuizNotFound
    \/ FetchQuizFailed
    \/ AuthStateChanged
    \/ AnswerChange
    \/ GoToNext
    \/ GoToPrevious
    \/ ManualSubmit
    \/ SecondElapses
    \/ Tick
    \/ WindowBlur
    \/ WindowFocus
    \/ VisibilityChange
    \/ BlurCheck
    \/ PersistSuccess
    \/ PersistFailure
    \/ Unmount

Spec == Init /\ [][Next]_vars

\* the session of answering, navigating and submitting a quiz of three questions
FormNext ==
    \/ FetchQuizFound
    \/ AnswerChange
    \/ GoToNext
    \/ GoToPrevious
    \/ ManualSubmit
    \/ SecondElapses
    \/ Tick
    \/ PersistSuccess

FormSpec == FormInit /\ [][FormNext]_vars

(***************************************************************************)
(* The time of day.  Spec and FormSpec take no account of it (elapsedMs    *)
(* stays 0); ClockSpec follows the clock, millisecond by millisecond, up   *)
(* to the first submission of a session that ends by timeout.              *)
(***************************************************************************)
ClockSteps == {1, 100}

TimePasses ==
    /\ started = 0
    /\ \E ms \in ClockSteps :
          /\ elapsedMs + ms <= MaxElapsedMs
          /\ Turn([World EXCEPT !.elapsedMs = @ + ms], FALSE)

ClockInit ==
    /\ quizDoc \in {d \in QuizDocs : ~d.cheatingProtection}
    /\ user = TRUE
    /\ FreshPage

ClockNext ==
    \/ FetchQuizFound
    \/ TimePasses
    \/ SecondElapses
    \/ Tick
    \/ PersistSuccess

ClockSpec == ClockInit /\ [][ClockNext]_vars

(***************************************************************************)
(* The auth state.  Spec follows a user who signs in; AuthSpec also        *)
(* follows the sign-out that onAuthStateChanged reports with null, in a    *)
(* session with cheating protection.                                       *)
(***************************************************************************)
\* onAuthStateChanged of the auth provider reports null: setUser(null)
AuthStateCleared ==
    /\ user
    /\ Turn([World EXCEPT !.user = FALSE], FALSE)

AuthInit ==
    /\ quizDoc \in {d \in QuizDocs : d.cheatingProtection}
    /\ user \in BOOLEAN
    /\ FreshPage

AuthNext ==
    \/ FetchQuizFound
    \/ AuthStateChanged
    \/ AuthStateCleared
    \/ SecondElapses
    \/ Tick
    \/ WindowBlur
    \/ WindowFocus
    \/ VisibilityChange
    \/ BlurCheck
    \/ PersistSuccess
    \/ PersistFailure

AuthSpec == AuthInit /\ [][AuthNext]_vars

(***************************************************************************)
(* The writes to cheating_logs (take/page.tsx 166-173).  The promise of    *)
(* addDoc is neither awaited nor given a handler.  Spec leaves every such  *)
(* write without an outcome; LogSpec follows their outcomes.               *)
(***************************************************************************)
\* variant: a failed log write is handled like a failed attempt write
LogWriteSettledReverts(w, outcome) ==
    LET w1 == [w EXCEPT !.logResults = Append(@, outcome)]
    IN IF outcome = "failed"
       THEN SetIsSubmitting(Toast(w1, "Submission Error"), FALSE)
       ELSE w1

\* the promise of the oldest pending addDoc(cheating_logs) settles
LogWriteSettled(w, outcome) == [w EXCEPT !.logResults = Append(@, outcome)]

LogWriteSuccess ==
    /\ Len(logResults) < Len(cheatingLogs)
    /\ Turn(LogWriteSettled(World, "stored"), FALSE)

LogWriteFailure ==
    /\ Len(logResults) < Len(cheatingLogs)
    /\ Turn(LogWriteSettled(World, "failed"), FALSE)

LogInit ==
    /\ quizDoc \in {d \in QuizDocs : d.cheatingProtection}
    /\ user = TRUE
    /\ FreshPage

LogNext ==
    \/ FetchQuizFound
    \/ SecondElapses
    \/ Tick
    \/ WindowBlur
    \/ WindowFocus
    \/ VisibilityChange
    \/ BlurCheck
    \/ PersistSuccess
    \/ PersistFailure
    \/ LogWriteSuccess
    \/ LogWriteFailure

LogSpec == LogInit /\ [][LogNext]_vars

(***************************************************************************)
(* The countdown under a scheduler that is fair to the timer: the read of  *)
(* the quiz completes, the second of an interval that stays set passes,    *)
(* and a callback that stays due is run.  An interval that is cleared      *)
(* takes its pending second and its due callback with it.                  *)
(***************************************************************************)
TimerInit ==
    /\ quizDoc \in {d \in QuizDocs : ~d.cheatingProtection}
    /\ user = TRUE
    /\ FreshPage

TimerNext ==
    \/ FetchQuizFound
    \/ AnswerChange
    \/ GoToNext
    \/ GoToPrevious
    \/ SecondElapses
    \/ Tick
    \/ PersistSuccess

\* the steps the scheduler owes: FetchQuizFound, SecondElapses and Tick, each
\* told by its guard and by the one variable only that action changes so
ReadCompletes == fetch = "pending" /\ fetch' = "loaded"

SecondPasses == intervalArmed /\ ~intervalElapsed /\ intervalElapsed' = TRUE

CallbackRuns == intervalArmed /\ intervalElapsed /\ ticks' = ticks + 1

TimerSpec ==
    /\ TimerInit /\ [][TimerNext]_vars
    /\ WF_fetch(ReadCompletes)
    /\ WF_intervalElapsed(SecondPasses)
    /\ WF_ticks(CallbackRuns)

(***************************************************************************)
(* The results page (src/src/app/results/[attemptId]/page.tsx 54-71): it   *)
(* reads the attempt and the quiz document and judges every question       *)
(* again.  The quiz document is the stored one; the form of create-quiz    *)
(* validates a question with a schema that has no id field, so a stored    *)
(* question may be without an id ("" here).                                *)
(***************************************************************************)
\* UTF-16 code unit of the characters that occur in option texts
CodeUnit(c) ==
    CASE c = " " -> 32
      [] c = "A" -> 65
      [] c = "B" -> 66
      [] OTHER -> 0

\* s sorts before t in Array.prototype.sort(): by code units, a prefix first
RECURSIVE StringBefore(_, _)
StringBefore(s, t) ==
    IF t = <<>> THEN FALSE
    ELSE IF s = <<>> THEN TRUE
    ELSE IF CodeUnit(Head(s)) # CodeUnit(Head(t))
    THEN CodeUnit(Head(s)) < CodeUnit(Head(t))
    ELSE StringBefore(Tail(s), Tail(t))

RECURSIVE InsertSorted(_, _)
InsertSorted(seq, x) ==
    IF seq = <<>> THEN <<x>>
    ELSE IF StringBefore(x, Head(seq)) THEN <<x>> \o seq
    ELSE <<Head(seq)>> \o InsertSorted(Tail(seq), x)

\* [...array].sort()
RECURSIVE Sorted(_)
Sorted(seq) ==
    IF seq = <<>> THEN <<>> ELSE InsertSorted(Sorted(Tail(seq)), Head(seq))

\* JSON.stringify of an array of strings, as the characters of its text
RECURSIVE JsonElements(_)
JsonElements(seq) ==
    IF seq = <<>> THEN <<>>
    ELSE <<"\"">> \o Head(seq) \o <<"\"">>
         \o (IF Len(seq) > 1 THEN <<",">> ELSE <<>>) \o JsonElements(Tail(seq))

JsonStringify(seq) == <<"[">> \o JsonElements(seq) \o <<"]">>

\* attemptData.answers.find(a => a.questionId === q.id), then its value or null
RecordedAnswer(recordAnswers, q) ==
    LET hits == {i \in 1..Len(recordAnswers) : recordAnswers[i].questionId = q.id}
    IN IF hits = {} THEN Null
       ELSE recordAnswers[CHOOSE i \in hits : \A j \in hits : i <= j].value

\* isCorrect of the results page
ResultIsCorrect(q, userAnswer) ==
    /\ Truthy(userAnswer)
    /\ IF q.type = "msq"
       THEN JsonStringify(IF IsArray(userAnswer) THEN Sorted(userAnswer.a) ELSE <<>>)
               = JsonStringify(Sorted(q.correctAnswers))
       ELSE /\ Len(q.correctAnswers) >= 1
            /\ userAnswer = Str(q.correctAnswers[1])

\* questionsWithAnswers: the questions of the quiz document with their marks
QuestionsWithAnswers(attemptData, quizData) ==
    [i \in 1..Len(quizData.questions) |->
        LET q == quizData.questions[i]
            userAnswer == RecordedAnswer(attemptData.answers, q)
        IN [question |-> q, userAnswer |-> userAnswer,
            isCorrect |-> ResultIsCorrect(q, userAnswer)]]

\* the number of questions the results page marks correct
MarkedCorrect(attemptData, quizData) ==
    LET marks == QuestionsWithAnswers(attemptData, quizData)
    IN Cardinality({i \in 1..Len(marks) : marks[i].isCorrect})

\* stored quizzes of two questions, each with or without an id; the first
\* is of any type, the second a single-choice question
StoredQuestionLists ==
    {<< [v EXCEPT !.id = i1], [p EXCEPT !.id = i2] >> :
        v \in VariedQuestions, p \in PlainQuestions,
        i1 \in {"", DocumentIds[1]}, i2 \in {"", DocumentIds[2]}}

StoredQuizDocs ==
    [questions : StoredQuestionLists,
     durationSixtieths : {MaxDurationSeconds},
     cheatingProtection : {FALSE}]

ResultsInit ==
    /\ quizDoc \in StoredQuizDocs
    /\ user = TRUE
    /\ FreshPage

ResultsNext ==
    \/ FetchQuizFound
    \/ AnswerChange
    \/ GoToNext
    \/ GoToPrevious
    \/ ManualSubmit
    \/ SecondElapses
    \/ Tick
    \/ PersistSuccess

ResultsSpec == ResultsInit /\ [][ResultsNext]_vars

(***************************************************************************)
(* Properties.                                                             *)
(***************************************************************************)
Records == {inflight[i] : i \in 1..Len(inflight)}
               \cup {attempts[i].data : i \in 1..Len(attempts)}

HiddenSignalHandled == listenersAttached /\ ~documentHidden /\ documentHidden'

FocusSignalHandled == listenersAttached /\ ~windowFocused /\ windowFocused'

BlurCheckRuns == Len(blurTimers') < Len(blurTimers)

\* C1: at most one AttemptRecord is ever created in the attempt store,
\* whatever the sequence of clicks, ticks, violations, edits and completions.
C1_AtMostOneRecord == Len(attempts) <= 1

\* C2: a submission request that arrives while the controller is Submitting
\* or Submitted (isSubmitting is true) starts no persistence call.
C2_NoStartWhileSubmitting == LateStart \notin turnLog

C5_HiddenCountsOnlyIfVisible ==
    [][ (HiddenSignalHandled /\ ~isPageVisible) =>
            /\ hookViolationCount' = hookViolationCount
            /\ violationLog' = violationLog ]_vars

\* C6: violationCount starts at 0 and never decreases, also when the
\* listeners are registered again; every change is an increment by 1 with
\* exactly one onViolation call carrying the new count; a focus signal sets
\* isPageVisible and leaves the count unchanged.
C6_CountMonotone ==
    /\ hookViolationCount = 0
    /\ [][ /\ hookViolationCount' \in {hookViolationCount, hookViolationCount + 1}
           /\ IF hookViolationCount' = hookViolationCount + 1
              THEN violationLog' = Append(violationLog, hookViolationCount')
              ELSE violationLog' = violationLog
           /\ FocusSignalHandled =>
                 isPageVisible' /\ hookViolationCount' = hookViolationCount
         ]_vars

\* the listeners have just been registered again with violations counted
C6_Witness ==
    /\ Reregistered \in turnLog
    /\ hookViolationCount = MaxViolations
    /\ violationLog = [i \in 1..MaxViolations |-> i]

\* C7: after the listeners of an activation are removed (teardown or
\* re-registration), the callback given to that activation is never invoked
\* again, even if one of its blur timeouts was still pending.
C7_NoCallbackAfterStop == CallAfterStop \notin turnLog

\* C8: with the quiz's cheating-protection flag off no listener is attached
\* and onViolation is never invoked: the count stays 0, no violation warning
\* is shown, no violation log entry is written and no submission with trigger
\* cheating is made.
C8_DisabledNeverFires ==
    ~quizDoc.cheatingProtection =>
        /\ ~listenersAttached
        /\ blurTimers = <<>>
        /\ hookViolationCount = 0 /\ pageViolationCount = 0
        /\ violationLog = <<>>
        /\ cheatingLogs = <<>>
        /\ toasts \cap {"Warning: Cheating Detected", "Quiz Auto-Submitted"} = {}
        /\ \A r \in Records : r.submissionType # "cheating"

\* a session without protection during which the page lost focus and was hidden
C8_Witness ==
    /\ ~quizDoc.cheatingProtection
    /\ mounted /\ fetch = "loaded" /\ HasQuiz(quiz)
    /\ documentHidden /\ ~windowFocused
    /\ timeLeft # <<>> /\ timeLeft[1] > 0

\* C9: the expiry event (submit with trigger timeout) fires exactly once in a
\* session, whatever changes afterwards.
C9_ExpiryOnce == ExpiredAgain \notin turnLog

C11_AnswersFrozenWhileSubmitting ==
    [][ /\ (isSubmitting \/ attempts # <<>>) => answers' = answers
        /\ answers' # answers =>
              /\ UiShown
              /\ \A id \in QuestionIds \ {CurrentQuestion.id} :
                     answers'[id] = answers[id] ]_vars

\* an answers entry that is absent, the empty string or the empty collection
EntryEmpty(v) == v \in {Undefined, Str(EmptyString), Arr(<<>>)}

FirstRequiredEmpty ==
    LET hits == {i \in 1..Len(quiz.questions) :
                    /\ quiz.questions[i].isRequired
                    /\ EntryEmpty(answers[quiz.questions[i].id])}
    IN IF hits = {} THEN 0 ELSE CHOOSE i \in hits : \A j \in hits : i <= j

ToSet(seq) == {seq[i] : i \in 1..Len(seq)}

\* records of submissions that are scored (trigger manual or timeout)
ScoredRecords == {r \in Records : r.submissionType \in {"manual", "timeout"}}

\* a multi-choice question judged by the equality of the two sets
SetEqualJudgement(q, value) ==
    IF q.type = "msq"
    THEN IsArray(value) /\ ToSet(value.a) = ToSet(q.correctAnswers)
    ELSE IsCorrect(q, value)

\* C14: in every scored record a multi-choice question counts as correct
\* exactly if the submitted values, as a set, equal the set of the question's
\* correct answers, in whatever order they were checked; a strict subset or
\* superset does not count.
C14_MultiChoiceSetEquality ==
    \A r \in ScoredRecords :
        r.score = Cardinality({i \in 1..Len(quiz.questions) :
                      SetEqualJudgement(quiz.questions[i], r.answers[i].value)})

\* a record counts a multi-choice answer checked in the order A, B as correct
\* for the correct answers B, A, all other questions left unanswered
C14_Witness ==
    \E r \in ScoredRecords : \E i \in 1..Len(quiz.questions) :
        /\ quiz.questions[i].type = "msq"
        /\ quiz.questions[i].correctAnswers = <<B, A>>
        /\ r.answers[i].value = Arr(<<A, B>>)
        /\ \A j \in (1..Len(quiz.questions)) \ {i} : r.answers[j].value = Null
        /\ r.score = 1

\* a question judged from the value the record holds for it: null is never
\* correct, a single-choice or boolean value must equal the sole correct
\* answer, a free-text value the first declared one
ValueJudgement(q, value) ==
    /\ value # Null
    /\ CASE q.type \in {"mcq", "tf"} ->
                Len(q.correctAnswers) = 1 /\ value = Str(q.correctAnswers[1])
         [] q.type = "text" ->
                q.correctAnswers # <<>> /\ value = Str(q.correctAnswers[1])
         [] OTHER -> IsCorrect(q, value)

\* C15: in every record of a manual or timeout submission, score is the
\* number of questions judged correct and totalQuestions the number of
\* questions of the quiz.
C15_ScoreCountsCorrect ==
    \A r \in ScoredRecords :
        /\ r.totalQuestions = Len(quiz.questions)
        /\ r.score = Cardinality({i \in 1..Len(quiz.questions) :
                         ValueJudgement(quiz.questions[i], r.answers[i].value)})

\* a manual record of three questions with the two single-choice answers
\* right and the boolean answer wrong: score 2 of 3
C15_Witness ==
    \E r \in ScoredRecords : \E i \in 1..Len(quiz.questions) :
        /\ r.submissionType = "manual"
        /\ quiz.questions[i].type = "tf"
        /\ r.answers[i].value = Str(FalseText)
        /\ r.score = 2 /\ r.totalQuestions = 3

\* the controller is in progress: a signed-in user has the quiz, no submission
\* is in flight and none has succeeded
InProgress == HasQuiz(quiz) /\ user /\ ~isSubmitting /\ attempts = <<>>

\* the count handed to onViolation in this step, 0 if it was not called
ViolationReported ==
    IF Len(violationLog') > Len(violationLog)
    THEN violationLog'[Len(violationLog')] ELSE 0

\* C16: the violation with count 1 shows the warning and starts no addDoc of
\* an attempt; a violation with count >= 2 starts one exactly if the
\* controller is in progress when the violation is handled.
C16_ViolationEscalation ==
    [][ /\ ViolationReported = 1 =>
              /\ started' = started
              /\ "Warning: Cheating Detected" \in toasts'
        /\ ViolationReported >= 2 =>
              (started' = started + 1 <=> InProgress) ]_vars

\* C17: when the addDoc of a submission fails, the page (while mounted) is
\* left with isSubmitting false and no new addDoc started, the error toast is
\* shown, and the answers, the violation counts and the cursor are what they
\* were, so that a manual submission is accepted and built from them.
C17_FailureRestoresInProgress ==
    [][ (PersistFailure /\ mounted)
        => /\ ~isSubmitting'
           /\ started' = started
           /\ "Submission Error" \in toasts'
           /\ answers' = answers
           /\ pageViolationCount' = pageViolationCount
           /\ hookViolationCount' = hookViolationCount
           /\ currentQuestionIndex' = currentQuestionIndex ]_vars

\* C18: the failure of an addDoc is no trigger: the turn that handles it
\* starts no new addDoc, also when the clock had reached 0 before the failure
\* (the expiry is not acted on again).
C18_NoResubmitAfterFailure ==
    [][ (PersistFailure /\ mounted /\ timeLeft = <<0>>)
        => /\ started' = started
           /\ Len(inflight') = Len(inflight) - 1
           /\ "Time's Up!" \notin toasts' ]_vars

\* C19: once an addDoc of an attempt has succeeded, no later step starts
\* another addDoc or sets isSubmitting back to false, and every redirect to
\* the results view carries the id of a stored attempt.
C19_SubmittedIsTerminal ==
    /\ [][ attempts # <<>> => (started' = started /\ isSubmitting') ]_vars
    /\ [](\A i \in 1..Len(redirects) :
              redirects[i].to = "results" =>
                  \E j \in 1..Len(attempts) : attempts[j].id = redirects[i].id)

\* C20 as stated: timeTakenSeconds of every record is the elapsed time in
\* milliseconds divided by 1000, the remainder dropped.
C20_ElapsedFloored ==
    \A r \in Records : r.timeTakenSeconds = r.submittedAt \div MillisPerSecond

\* C20, amended: timeTakenSeconds of every record is the whole number of
\* seconds nearest to the elapsed time, a half second rounded up.
C20_ElapsedRounded ==
    \A r \in Records :
        /\ 2 * MillisPerSecond * r.timeTakenSeconds <= 2 * r.submittedAt + MillisPerSecond
        /\ 2 * MillisPerSecond * r.timeTakenSeconds > 2 * r.submittedAt - MillisPerSecond

\* a record submitted 1500 ms after the start holds 2 seconds
C20_Witness ==
    \E r \in Records : r.submittedAt = 1500 /\ r.timeTakenSeconds = 2

\* C21: while no user is signed in (before and after the step), no step
\* starts an addDoc of an attempt, whatever the trigger.
C21_NoUserNoSubmission ==
    [][ (~user /\ ~user') => (started' = started /\ Len(inflight') <= Len(inflight)) ]_vars

\* the state apart from the outcomes of the log writes
ApartFromLogResults == [World EXCEPT !.logResults = <<>>]

\* C22: the outcome of a write to cheating_logs, stored or failed, changes
\* nothing but itself: not isSubmitting, not the writes of attempts in flight,
\* not a stored attempt, and no toast is shown; while log writes are pending
\* or have failed, a write of an attempt in flight can still complete.
C22_LogWriteFireAndForget ==
    /\ [][ (LogWriteSuccess \/ LogWriteFailure) =>
               /\ ApartFromLogResults' = ApartFromLogResults
               /\ toasts' = {} ]_vars
    /\ [](inflight # <<>> => ENABLED PersistSuccess)

\* a cheating attempt is stored although the first log write has failed and
\* the second has no outcome yet
C22_Witness ==
    /\ \E i \in 1..Len(attempts) : attempts[i].data.submissionType = "cheating"
    /\ Len(cheatingLogs) = 2
    /\ logResults = <<"failed">>

\* the cursor is on a question of the quiz
CursorInRange ==
    HasQuiz(quiz) => currentQuestionIndex \in 0..(Len(quiz.questions) - 1)

\* the question on display is required and has no answer: the entry is
\* absent, empty or a blank string
RequiredWithoutAnswer ==
    /\ CurrentQuestion.isRequired
    /\ LET v == answers[CurrentQuestion.id]
       IN EntryEmpty(v) \/ (v.t = "string" /\ Trim(v.s) = <<>>)

\* C23 as stated: the cursor stays on a question of the quiz; goToNext moves
\* it by exactly +1 unless it is on the last question, goToPrevious by
\* exactly -1 unless it is on the first, and leaves it there otherwise.
C23_CursorMovesByOne ==
    /\ CursorInRange
    /\ UiShown =>
          /\ GoToNextOf(World).currentQuestionIndex =
                IF currentQuestionIndex = Len(quiz.questions) - 1
                THEN currentQuestionIndex ELSE currentQuestionIndex + 1
          /\ GoToPreviousOf(World).currentQuestionIndex =
                IF currentQuestionIndex = 0
                THEN currentQuestionIndex ELSE currentQuestionIndex - 1

\* C23, amended: as stated, except that goToNext also leaves the cursor where
\* it is when the question on display is required and has no answer.
C23_CursorMovesByOneIfAnswered ==
    /\ CursorInRange
    /\ UiShown =>
          /\ GoToNextOf(World).currentQuestionIndex =
                IF \/ currentQuestionIndex = Len(quiz.questions) - 1
                   \/ RequiredWithoutAnswer
                THEN currentQuestionIndex ELSE currentQuestionIndex + 1
          /\ GoToPreviousOf(World).currentQuestionIndex =
                IF currentQuestionIndex = 0
                THEN currentQuestionIndex ELSE currentQuestionIndex - 1

\* the cursor went to the last question, which was answered, and came back
\* to the first, a required question whose answer was then removed again
C23_Witness ==
    /\ UiShown
    /\ currentQuestionIndex = 0
    /\ answers[quiz.questions[Len(quiz.questions)].id] # Undefined
    /\ answers[CurrentQuestion.id] # Undefined
    /\ RequiredWithoutAnswer

\* the trigger of the submission requested in this step: the Submit action,
\* a violation with count >= 2, or else the timer effect
TriggerOfStep ==
    IF ManualSubmit THEN "manual"
    ELSE IF ViolationReported >= 2 THEN "cheating"
    ELSE "timeout"

C25_ValidationOnlyForManual ==
    [][ (InProgress /\ ("Time's Up!" \in toasts' \/ ViolationReported >= 2))
        => /\ started' = started + 1
           /\ currentQuestionIndex' = currentQuestionIndex ]_vars

\* C26: after a quiz read that found nothing or failed, timeLeft stays null
\* and the expiry branch never runs, no interval is set, the listeners are
\* never attached and nothing is counted, and no addDoc of an attempt is ever
\* started or stored.
C26_NoSessionWithoutQuiz ==
    fetch \in {"notfound", "failed"} =>
        /\ ~HasQuiz(quiz)
        /\ timeLeft = <<>> /\ ~expired /\ ticks = 0 /\ ~intervalArmed
        /\ ~listenersAttached /\ blurTimers = <<>>
        /\ hookViolationCount = 0 /\ violationLog = <<>>
        /\ started = 0 /\ inflight = <<>> /\ attempts = <<>>

\* the read of a protected quiz has failed and the signed-in user has since
\* hidden the page and taken the focus away
C26_Witness ==
    /\ fetch = "failed"
    /\ quizDoc.cheatingProtection /\ user /\ mounted
    /\ documentHidden /\ ~windowFocused
    /\ redirects # <<>>

\* C27: every record with submissionType cheating, in flight or stored, holds
\* a violation count of at least 2, and an addDoc of such a record starts
\* only in a step that reports a violation with count >= 2.
C27_CheatingNeedsTwoViolations ==
    /\ [](\A r \in Records :
              r.submissionType = "cheating" => r.cheatingViolations >= 2)
    /\ [][ (/\ started' > started
            /\ inflight'[Len(inflight')].submissionType = "cheating")
           => (ViolationReported >= 2 /\ hookViolationCount' >= 2) ]_vars

\* a cheating attempt is stored with a violation count of exactly 2
C27_Witness ==
    \E i \in 1..Len(attempts) :
        /\ attempts[i].data.submissionType = "cheating"
        /\ attempts[i].data.cheatingViolations = 2

\* C28: with a timer that is scheduled fairly, timeLeft reaches 0 and the
\* timer effect requests the timeout submission, whatever answers the user
\* changes and wherever the cursor is moved in the meantime.
C28_ClockReachesZero == <>(timeLeft = <<0>> /\ expired)

\* C29: the record handed to addDoc holds, and is scored on, the answers that
\* are current when handleSubmitQuiz is called, and the guard tests the
\* isSubmitting that is current then: no addDoc is started while it is set.
\* This includes the call made by the 300 ms check of handleBlur.
C29_SubmitReadsCurrentState ==
    [][ started' > started =>
           LET r == inflight'[Len(inflight')]
           IN /\ r.answers = AnsweredQuestions(quiz'.questions, answers')
              /\ r.score = CalculateScore(r.submissionType,
                                          quiz'.questions, answers')
              /\ LateStart \notin turnLog' ]_vars

\* C30: for every stored attempt with submissionType manual or timeout, the
\* score of the record equals the number of questions that the results page
\* marks correct when it judges the record's answers against the quiz
\* document again.
C30_ScoreMatchesResultsPage ==
    \A i \in 1..Len(attempts) :
        attempts[i].data.submissionType \in {"manual", "timeout"} =>
            attempts[i].data.score = MarkedCorrect(attempts[i].data, quizDoc)

====
